---- MODULE Spec2Model ----
(***************************************************************************)
(* A model of the TrueType font parser (hachoir_parser/misc/ttf.py) and of *)
(* the fragment group (hachoir/field/fragment.py).                         *)
(*                                                                         *)
(* A FieldSet is modelled by the list of the fields its createFields       *)
(* generator has yielded so far, its bit cursor (current_size) and the     *)
(* position of the generator.  Addresses handed to seekByte are bytes, the *)
(* cursor and every field size are bits, as in the code.                   *)
(***************************************************************************)
EXTENDS Integers, Sequences, FiniteSets, TLC

VARIABLES
    file,          \* the input stream: the values the parser reads from it
    pc,            \* position of TrueTypeFontFile.createFields
    fields,        \* fields yielded by the root so far
    current_size,  \* the root's cursor, in bits
    tables,        \* the local list 'tables' (directory indexes of the records)
    idx,           \* position of the loop 'for table in tables'
    status,        \* "running", "done" (generator exhausted) or "fatal" (ParserError)
    seeks,         \* history: directory indexes in the order their seek was made
    result,        \* what validate() returned: <<>> before the call, <<r>> after it
    tparser,       \* Table.parser of the Table whose fields are read ("closed": none)
    tfield,        \* that Table's index among the root's fields
    tfields,       \* fields yielded by the Table so far
    tcur,          \* the Table's cursor (its current_size), in bits
    tpc,           \* position of the Table's generator
    tstatus,       \* "running", "done" or "fatal"
    entries,       \* parseNames: the local list 'entries' (index-record numbers)
    eidx,          \* parseNames: position of the loop 'for entry in entries'
    last,          \* parseNames: the local 'last', <<>> for None, <<pair>> otherwise
    errors,        \* anomalies reported through self.error, in order
    outer,         \* the bytes of the stream the fragments are fields of
    frags,         \* the CustomFragments, in the order they were constructed
    groups,        \* the FragmentGroups, in the order they were constructed
    stream         \* the last stream a createInputStream returned, <<>> if none, with
                   \* its group and the number of fragments there were at the call

rootVars == <<file, pc, fields, current_size, tables, idx, status, seeks>>

tableVars == <<tparser, tfield, tfields, tcur, tpc, tstatus, entries, eidx, last, errors>>

fragVars == <<outer, frags, groups, stream>>

\* what the root production leaves alone
notRoot == <<result, tableVars, fragVars>>

\* what the production of a Table leaves alone
notTable == <<result, rootVars, fragVars>>

\* what the fragments leave alone
notFrag == <<result, rootVars, tableVars>>

vars == <<rootVars, result, tableVars, fragVars>>

(***************************************************************************)
(* Bounds of the model.                                                    *)
(***************************************************************************)
MaxTables == 3

(***************************************************************************)
(* Program constants.                                                      *)
(***************************************************************************)
MIN_NB_TABLE == 3
MAX_NB_TABLE == 30

UInt16Bits == 16
UInt32Bits == 32

\* TableHeader.createFields: String(4) + three UInt32
TableHeaderBits == 4 * 8 + UInt32Bits + UInt32Bits + UInt32Bits

\* the six UInt16 fields that open TrueTypeFontFile.createFields
RootHeaderNames ==
    <<"maj_ver", "min_ver", "nb_table", "search_range", "entry_selector", "range_shift">>

(***************************************************************************)
(* Fields.  rec is the directory index a field was built from, 0 if none.  *)
(***************************************************************************)
Field(name, bits, rec) == [name |-> name, bits |-> bits, rec |-> rec]

RECURSIVE SumBits(_)
SumBits(fs) == IF fs = <<>> THEN 0 ELSE fs[1].bits + SumBits(Tail(fs))

(***************************************************************************)
(* FieldSet.seekBit / seekByte (relative=True): the number of bits between *)
(* the cursor and the address.  Negative: ParserError; zero: no field;     *)
(* positive: one padding field of that many bits.                          *)
(***************************************************************************)
seekBit(cur, address) == address - cur

seekByte(cur, address) == seekBit(cur, address * 8)

(***************************************************************************)
(* tables.sort(key=offset): Python's list.sort is stable.  Insertion sort: *)
(* an element goes behind every element whose key is not greater.          *)
(***************************************************************************)
RECURSIVE InsertByKey(_, _, _)
InsertByKey(s, x, key) ==
    IF s = <<>> THEN <<x>>
    ELSE IF key[s[1]] <= key[x] THEN <<s[1]>> \o InsertByKey(Tail(s), x, key)
    ELSE <<x>> \o s

RECURSIVE SortByKey(_, _)
SortByKey(s, key) ==
    IF s = <<>> THEN <<>>
    ELSE InsertByKey(SortByKey(SubSeq(s, 1, Len(s) - 1), key), s[Len(s)], key)

OffsetKey(f) == [i \in 1..Len(f.dir) |-> f.dir[i].offset]

\* a sort that puts a record before the records of equal offset read earlier
RECURSIVE InsertBeforeEqual(_, _, _)
InsertBeforeEqual(s, x, key) ==
    IF s = <<>> THEN <<x>>
    ELSE IF key[s[1]] < key[x] THEN <<s[1]>> \o InsertBeforeEqual(Tail(s), x, key)
    ELSE <<x>> \o s

RECURSIVE SortUnstable(_, _)
SortUnstable(s, key) ==
    IF s = <<>> THEN <<>>
    ELSE InsertBeforeEqual(SortUnstable(SubSeq(s, 1, Len(s) - 1), key), s[Len(s)], key)

SortTablesUnstable(f, ts) == SortUnstable(ts, OffsetKey(f))

SortTables(f, ts) == SortByKey(ts, OffsetKey(f))

(***************************************************************************)
(* The content of a font header table and of a name table: the values the  *)
(* sub-parsers read.  A file holds one content of each kind, read by every *)
(* table of that tag.                                                      *)
(***************************************************************************)
\* "\x5F\x0F\x3C\xF5"
MAGIC == <<95, 15, 60, 245>>

DefaultHead == [magic |-> MAGIC, unit_per_em |-> 1000]

DefaultNames ==
    [format |-> 0, count |-> 1, offset |-> 18, recs |-> <<[offset |-> 0, length |-> 2]>>]

(***************************************************************************)
(* Input files of the root production.                                     *)
(***************************************************************************)
RootTags == {"glyf"}
RootOffsets == {50, 60, 120, 200}
RootSizes == {0, 80}
RootFileSizes == {200, 280}

TableHeaderRecord(tags, offsets, sizes) == [tag : tags, offset : offsets, size : sizes]

SeqsUpTo(S, n) == UNION {[1..m -> S] : m \in 0..n}

RootFiles ==
    {[maj_ver |-> 1, min_ver |-> 0, nb_table |-> Len(d), dir |-> d, size |-> sz,
      head |-> DefaultHead, names |-> DefaultNames] :
        d \in SeqsUpTo(TableHeaderRecord(RootTags, RootOffsets, RootSizes), MaxTables),
        sz \in RootFileSizes}

(***************************************************************************)
(* Table.TAG_INFO and Table.__init__: a tag of the static table renames    *)
(* the field and selects the sub-parser; any other tag keeps the name      *)
(* "table[]" and has no parser.                                            *)
(***************************************************************************)
TAG_INFO ==
    [head |-> [name |-> "header", description |-> "Font header", parser |-> "parseFontHeader"],
     name |-> [name |-> "names", description |-> "Names", parser |-> "parseNames"]]

TableName(tag) == IF tag \in DOMAIN TAG_INFO THEN TAG_INFO[tag].name ELSE "table"

\* a lookup that falls back on the font header parser for a tag it does not hold
TableParserWithDefault(tag) ==
    IF tag \in DOMAIN TAG_INFO THEN TAG_INFO[tag].parser ELSE TAG_INFO["head"].parser

TableParser(tag) == IF tag \in DOMAIN TAG_INFO THEN TAG_INFO[tag].parser ELSE "None"

TableNames == {"table"} \cup {TAG_INFO[t].name : t \in DOMAIN TAG_INFO}

(***************************************************************************)
(* TrueTypeFontFile.createFields                                           *)
(***************************************************************************)
InitRoot(files) ==
    /\ file \in files
    /\ pc = "header"
    /\ fields = <<>>
    /\ current_size = 0
    /\ tables = <<>>
    /\ idx = 1
    /\ status = "running"
    /\ seeks = <<>>

\* the root appends a field it was yielded and advances its cursor
AddField(fld) ==
    /\ fields' = Append(fields, fld)
    /\ current_size' = current_size + fld.bits

\* yield UInt16(self, "maj_ver") ... yield UInt16(self, "range_shift")
YieldRootHeader ==
    /\ status = "running" /\ pc = "header"
    /\ AddField(Field(RootHeaderNames[Len(fields) + 1], UInt16Bits, 0))
    /\ pc' = IF Len(fields) + 1 = Len(RootHeaderNames) THEN "directory" ELSE "header"
    /\ UNCHANGED <<file, tables, idx, status, seeks, notRoot>>

\* a directory loop that raises ParserError on a count outside the range
YieldTableHeaderChecked ==
    /\ status = "running" /\ pc = "directory"
    /\ Len(tables) < file.nb_table
    /\ IF MIN_NB_TABLE <= file.nb_table /\ file.nb_table <= MAX_NB_TABLE
       THEN /\ AddField(Field("table_hdr", TableHeaderBits, Len(tables) + 1))
            /\ tables' = Append(tables, Len(tables) + 1)
            /\ UNCHANGED status
       ELSE /\ status' = "fatal"
            /\ UNCHANGED <<fields, current_size, tables>>
    /\ UNCHANGED <<file, pc, idx, seeks, notRoot>>

\* for index in xrange(nb_table): yield TableHeader(self, "table_hdr[]")
YieldTableHeader ==
    /\ status = "running" /\ pc = "directory"
    /\ Len(tables) < file.nb_table
    /\ AddField(Field("table_hdr", TableHeaderBits, Len(tables) + 1))
    /\ tables' = Append(tables, Len(tables) + 1)
    /\ UNCHANGED <<file, pc, idx, status, seeks, notRoot>>

\* tables.sort(key=lambda field: field["offset"].value)
SortDirectory ==
    /\ status = "running" /\ pc = "directory"
    /\ Len(tables) = file.nb_table
    /\ tables' = SortTables(file, tables)
    /\ idx' = 1
    /\ pc' = "seek"
    /\ UNCHANGED <<file, fields, current_size, status, seeks, notRoot>>

\* a seek that moves the cursor back to an address behind it
SeekTableRewind ==
    /\ status = "running" /\ pc = "seek"
    /\ idx <= Len(tables)
    /\ seeks' = Append(seeks, tables[idx])
    /\ LET nbits == seekByte(current_size, file.dir[tables[idx]].offset) IN
        \/ /\ nbits < 0
           /\ current_size' = current_size + nbits
           /\ pc' = "table"
           /\ UNCHANGED <<status, fields>>
        \/ /\ nbits > 0
           /\ AddField(Field("padding", nbits, tables[idx]))
           /\ pc' = "table"
           /\ UNCHANGED status
        \/ /\ nbits = 0
           /\ pc' = "table"
           /\ UNCHANGED <<status, fields, current_size>>
    /\ UNCHANGED <<file, tables, idx, notRoot>>

\* a seek that moves on to the table without the padding of the gap
SeekTableNoPadding ==
    /\ status = "running" /\ pc = "seek"
    /\ idx <= Len(tables)
    /\ seeks' = Append(seeks, tables[idx])
    /\ LET nbits == seekByte(current_size, file.dir[tables[idx]].offset) IN
        \/ /\ nbits < 0
           /\ status' = "fatal"
           /\ UNCHANGED <<pc, fields, current_size>>
        \/ /\ nbits >= 0
           /\ pc' = "table"
           /\ UNCHANGED <<status, fields, current_size>>
    /\ UNCHANGED <<file, tables, idx, notRoot>>

\* padding = self.seekByte(table["offset"].value, null=True); if padding: yield padding
SeekTable ==
    /\ status = "running" /\ pc = "seek"
    /\ idx <= Len(tables)
    /\ seeks' = Append(seeks, tables[idx])
    /\ LET nbits == seekByte(current_size, file.dir[tables[idx]].offset) IN
        \/ /\ nbits < 0
           /\ status' = "fatal"
           /\ UNCHANGED <<pc, fields, current_size>>
        \/ /\ nbits > 0
           /\ AddField(Field("padding", nbits, tables[idx]))
           /\ pc' = "table"
           /\ UNCHANGED status
        \/ /\ nbits = 0
           /\ pc' = "table"
           /\ UNCHANGED <<status, fields, current_size>>
    /\ UNCHANGED <<file, tables, idx, notRoot>>

\* an emission that leaves out 'if size:'
EmitTableAlways ==
    /\ status = "running" /\ pc = "table"
    /\ AddField(Field(TableName(file.dir[tables[idx]].tag), file.dir[tables[idx]].size * 8,
                      tables[idx]))
    /\ idx' = idx + 1
    /\ pc' = "seek"
    /\ UNCHANGED <<file, tables, status, seeks, notRoot>>

\* size = table["size"].value; if size: yield Table(self, "table[]", table, size=size*8)
EmitTable ==
    /\ status = "running" /\ pc = "table"
    /\ LET size == file.dir[tables[idx]].size IN
        \/ /\ size # 0
           /\ AddField(Field(TableName(file.dir[tables[idx]].tag), size * 8, tables[idx]))
        \/ /\ size = 0
           /\ UNCHANGED <<fields, current_size>>
    /\ idx' = idx + 1
    /\ pc' = "seek"
    /\ UNCHANGED <<file, tables, status, seeks, notRoot>>

\* a last seek that yields its padding field whatever its length
FinalSeekAlwaysPads ==
    /\ status = "running" /\ pc = "seek"
    /\ idx > Len(tables)
    /\ LET nbits == seekBit(current_size, file.size * 8) IN
        \/ /\ nbits < 0
           /\ status' = "fatal"
           /\ UNCHANGED <<pc, fields, current_size>>
        \/ /\ nbits >= 0
           /\ AddField(Field("padding", nbits, 0))
           /\ pc' = "end"
           /\ status' = "done"
    /\ UNCHANGED <<file, tables, idx, seeks, notRoot>>

\* padding = self.seekBit(self.size, null=True); if padding: yield padding
FinalSeek ==
    /\ status = "running" /\ pc = "seek"
    /\ idx > Len(tables)
    /\ LET nbits == seekBit(current_size, file.size * 8) IN
        \/ /\ nbits < 0
           /\ status' = "fatal"
           /\ UNCHANGED <<pc, fields, current_size>>
        \/ /\ nbits > 0
           /\ AddField(Field("padding", nbits, 0))
           /\ pc' = "end"
           /\ status' = "done"
        \/ /\ nbits = 0
           /\ pc' = "end"
           /\ status' = "done"
           /\ UNCHANGED <<fields, current_size>>
    /\ UNCHANGED <<file, tables, idx, seeks, notRoot>>

\* no validate() call made, no Table opened
InitIdle ==
    /\ result = <<>>
    /\ tparser = "closed"
    /\ tfield = 0
    /\ tfields = <<>>
    /\ tcur = 0
    /\ tpc = "closed"
    /\ tstatus = "closed"
    /\ entries = <<>>
    /\ eidx = 1
    /\ last = <<>>
    /\ errors = <<>>

\* no fragment constructed
InitNoFragment ==
    /\ outer = <<>>
    /\ frags = <<>>
    /\ groups = <<>>
    /\ stream = <<>>

Init == InitRoot(RootFiles) /\ InitIdle /\ InitNoFragment

Next ==
    \/ YieldRootHeader
    \/ YieldTableHeader
    \/ SortDirectory
    \/ SeekTable
    \/ EmitTable
    \/ FinalSeek

Spec == Init /\ [][Next]_vars

(***************************************************************************)
(* TrueTypeFontFile.validate                                               *)
(***************************************************************************)
Success == [ok |-> TRUE, msg |-> "", arg |-> 0]

\* "<msg> (%u)" % arg
Failure(msg, arg) == [ok |-> FALSE, msg |-> msg, arg |-> arg]

\* a validate whose range check excludes both bounds
validateExclusive(maj_ver, min_ver, nb_table) ==
    IF maj_ver # 1 THEN Failure("Invalid major version", maj_ver)
    ELSE IF min_ver # 0 THEN Failure("Invalid minor version", min_ver)
    ELSE IF ~(MIN_NB_TABLE < nb_table /\ nb_table < MAX_NB_TABLE)
         THEN Failure("Invalid number of table", nb_table)
    ELSE Success

validate(maj_ver, min_ver, nb_table) ==
    IF maj_ver # 1 THEN Failure("Invalid major version", maj_ver)
    ELSE IF min_ver # 0 THEN Failure("Invalid minor version", min_ver)
    ELSE IF ~(MIN_NB_TABLE <= nb_table /\ nb_table <= MAX_NB_TABLE)
         THEN Failure("Invalid number of table", nb_table)
    ELSE Success

\* a validate that looks up the last field of the header first
LookedUpWholeHeader(f) == Len(RootHeaderNames)

\* the number of root fields validate looks up before it returns:
\* self["maj_ver"], then self["min_ver"], then self["nb_table"]
LookedUp(f) == IF f.maj_ver # 1 THEN 1 ELSE IF f.min_ver # 0 THEN 2 ELSE 3

\* FieldSet.__getitem__: a lookup by name makes the generator yield until the
\* field exists; the fields before it are produced, no field after it
FeedUntil(n) ==
    IF Len(fields) >= n THEN UNCHANGED <<fields, current_size>>
    ELSE /\ fields' = fields \o [i \in 1..(n - Len(fields)) |->
                            Field(RootHeaderNames[Len(fields) + i], UInt16Bits, 0)]
         /\ current_size' = current_size + (n - Len(fields)) * UInt16Bits

Validate ==
    /\ result = <<>>
    /\ FeedUntil(LookedUp(file))
    /\ result' = <<validate(file.maj_ver, file.min_ver, file.nb_table)>>
    /\ UNCHANGED <<file, pc, tables, idx, status, seeks, tableVars, fragVars>>

(***************************************************************************)
(* Input files of validate: table counts around both bounds of the range,  *)
(* every record of a directory the same.                                   *)
(***************************************************************************)
ValidateCounts == {0, 1, 2, 3, 5, 30, 31}
ValidateRecords ==
    {[tag |-> "glyf", offset |-> 520, size |-> 100], [tag |-> "glyf", offset |-> 600, size |-> 0]}
ValidateFileSizes == {600, 700}

ValidateFiles ==
    {[maj_ver |-> maj, min_ver |-> min, nb_table |-> nb, dir |-> [i \in 1..nb |-> r],
      size |-> sz, head |-> DefaultHead, names |-> DefaultNames] :
        maj \in {1, 2}, min \in {0, 1}, nb \in ValidateCounts,
        r \in ValidateRecords, sz \in ValidateFileSizes}

InitValidate == InitRoot(ValidateFiles) /\ InitIdle /\ InitNoFragment

NextValidate ==
    \/ YieldRootHeader
    \/ YieldTableHeader
    \/ SortDirectory
    \/ SeekTable
    \/ EmitTable
    \/ FinalSeek
    \/ Validate

SpecValidate == InitValidate /\ [][NextValidate]_vars

(***************************************************************************)
(* Table.createFields, for one Table of the root at a time: a consumer     *)
(* starts to read the fields of a Table the root has emitted.  Only Tables *)
(* that lie inside the stream are read.                                    *)
(***************************************************************************)
OpenTable(i) ==
    /\ tparser = "closed"
    /\ i \in 1..Len(fields)
    /\ fields[i].name \in TableNames
    /\ SumBits(SubSeq(fields, 1, i)) <= file.size * 8
    /\ tparser' = TableParser(file.dir[fields[i].rec].tag)
    /\ tfield' = i
    /\ tstatus' = "running"
    /\ tpc' = "header"
    /\ UNCHANGED <<tfields, tcur, entries, eidx, last, errors, notTable>>

\* the Table appends a field it was yielded and advances its cursor
TableAddField(fld) ==
    /\ tfields' = Append(tfields, fld)
    /\ tcur' = tcur + fld.bits

\* self.size: the size the Table was constructed with (size*8)
TableSize == fields[tfield].bits

\* else: yield RawBytes(self, "content", self.size//8)
YieldContent ==
    /\ tparser = "None" /\ tstatus = "running"
    /\ TableAddField(Field("content", (TableSize \div 8) * 8, 0))
    /\ tstatus' = "done"
    /\ UNCHANGED <<tparser, tfield, tpc, entries, eidx, last, errors, notTable>>

(***************************************************************************)
(* parseFontHeader                                                         *)
(***************************************************************************)
Named(name, bits) == [name |-> name, bits |-> bits]

\* the fields of parseFontHeader in the order they are yielded
FontHeaderFields == <<
    Named("maj_ver", 16), Named("min_ver", 16), Named("font_maj_ver", 16),
    Named("font_min_ver", 16), Named("checksum", 32), Named("magic", 4 * 8),
    Named("y0", 1), Named("x0", 1), Named("instr_point", 1), Named("ppem", 1),
    Named("instr_width", 1), Named("vertical", 1), Named("reserved[]", 1),
    Named("linguistic", 1), Named("gx", 1), Named("strong", 1), Named("indic", 1),
    Named("lossless", 1), Named("converted", 1), Named("cleartype", 1), Named("adobe", 2),
    Named("unit_per_em", 16),
    Named("created_high", 32), Named("created", 32), Named("modified_high", 32),
    Named("modified", 32), Named("xmin", 16), Named("ymin", 16), Named("xmax", 16),
    Named("ymax", 16),
    Named("bold", 1), Named("italic", 1), Named("underline", 1), Named("outline", 1),
    Named("shadow", 1), Named("condensed", 1), Named("extensed", 1), Named("reserved[]", 9),
    Named("lowest", 16), Named("font_dir", 16), Named("ofst_format", 16),
    Named("glyph_format", 16) >>

IndexOf(name) == CHOOSE i \in 1..Len(FontHeaderFields) : FontHeaderFields[i].name = name

\* a magic check that compares the first two bytes only
MagicPrefixValid(magic) == SubSeq(magic, 1, 2) = SubSeq(MAGIC, 1, 2)

\* not (self["magic"].value != "\x5F\x0F\x3C\xF5")
MagicValid(magic) == magic = MAGIC

\* a range check that excludes both bounds
UnitPerEmValidExclusive(v) == 16 < v /\ v < 16384

\* 16 <= self["unit_per_em"].value <= 16384
UnitPerEmValid(v) == 16 <= v /\ v <= 16384

parseFontHeader ==
    /\ tparser = "parseFontHeader" /\ tstatus = "running"
    /\ LET n == Len(tfields) IN
        \/ /\ n = IndexOf("magic")
           /\ ~MagicValid(file.head.magic)
           /\ tstatus' = "fatal"
           /\ UNCHANGED <<tfields, tcur>>
        \/ /\ n = IndexOf("unit_per_em")
           /\ ~UnitPerEmValid(file.head.unit_per_em)
           /\ tstatus' = "fatal"
           /\ UNCHANGED <<tfields, tcur>>
        \/ /\ n = IndexOf("magic") => MagicValid(file.head.magic)
           /\ n = IndexOf("unit_per_em") => UnitPerEmValid(file.head.unit_per_em)
           /\ TableAddField(Field(FontHeaderFields[n + 1].name, FontHeaderFields[n + 1].bits, 0))
           /\ tstatus' = IF n + 1 = Len(FontHeaderFields) THEN "done" ELSE "running"
    /\ UNCHANGED <<tparser, tfield, tpc, entries, eidx, last, errors, notTable>>

(***************************************************************************)
(* parseNames                                                              *)
(***************************************************************************)
\* NameHeader.createFields: six UInt16
NameHeaderBits == 6 * UInt16Bits

NameKey(f) == [i \in 1..Len(f.names.recs) |-> f.names.recs[i].offset]

\* entries.sort(key=lambda field: field["offset"].value)
SortEntries(f, es) == SortByKey(es, NameKey(f))

\* new = (entry["offset"].value, entry["length"].value)
Pair(r) == <<r.offset, r.length>>

\* 'last and last is new': two pairs built apart are never the same object
IsDuplicateByIdentity(lst, new) == lst # <<>> /\ lst[1] = new /\ FALSE

\* last and last == new: None is false, a pair is true whatever it holds
IsDuplicate(lst, new) == lst # <<>> /\ lst[1] = new

\* a comparison of a bit address with the byte cursor
IsNegativeOffsetBits(offset, cur) == offset * 8 < cur \div 8

\* a walk without the negative-offset check
IsNegativeOffsetNever(offset, cur) == FALSE

\* offset < self.current_size//8
IsNegativeOffset(offset, cur) == offset < cur \div 8

Anomaly(kind, entry) == [kind |-> kind, entry |-> entry]

\* yield UInt16 "format"; the format check; yield UInt16 "count", "offset"
NamesHeader ==
    /\ tparser = "parseNames" /\ tstatus = "running" /\ tpc = "header"
    /\ \/ /\ Len(tfields) = 0
          /\ TableAddField(Field("format", UInt16Bits, 0))
          /\ UNCHANGED <<tpc, tstatus>>
       \/ /\ Len(tfields) = 1
          /\ file.names.format # 0
          /\ tstatus' = "fatal"
          /\ UNCHANGED <<tfields, tcur, tpc>>
       \/ /\ Len(tfields) = 1
          /\ file.names.format = 0
          /\ TableAddField(Field("count", UInt16Bits, 0))
          /\ UNCHANGED <<tpc, tstatus>>
       \/ /\ Len(tfields) = 2
          /\ TableAddField(Field("offset", UInt16Bits, 0))
          /\ tpc' = "index"
          /\ UNCHANGED tstatus
    /\ UNCHANGED <<tparser, tfield, entries, eidx, last, errors, notTable>>

\* for index in xrange(count): yield NameHeader(self, "header[]")
NamesIndex ==
    /\ tparser = "parseNames" /\ tstatus = "running" /\ tpc = "index"
    /\ Len(entries) < file.names.count
    /\ TableAddField(Field("header", NameHeaderBits, Len(entries) + 1))
    /\ entries' = Append(entries, Len(entries) + 1)
    /\ UNCHANGED <<tparser, tfield, tpc, tstatus, eidx, last, errors, notTable>>

\* entries.sort(...); last = None
NamesSort ==
    /\ tparser = "parseNames" /\ tstatus = "running" /\ tpc = "index"
    /\ Len(entries) = file.names.count
    /\ entries' = SortEntries(file, entries)
    /\ last' = <<>>
    /\ eidx' = 1
    /\ tpc' = "walk"
    /\ UNCHANGED <<tparser, tfield, tfields, tcur, tstatus, errors, notTable>>

\* one turn of 'for entry in entries' up to the padding: the duplicate check,
\* the negative-offset check, the seek
NamesWalk ==
    /\ tparser = "parseNames" /\ tstatus = "running" /\ tpc = "walk"
    /\ eidx <= Len(entries)
    /\ LET entry == entries[eidx]
           rec == file.names.recs[entry]
           offset == rec.offset + file.names.offset
           nbits == seekByte(tcur, offset) IN
        \/ /\ IsDuplicate(last, Pair(rec))
           /\ errors' = Append(errors, Anomaly("duplicate", entry))
           /\ eidx' = eidx + 1
           /\ UNCHANGED <<last, tfields, tcur, tpc, tstatus>>
        \/ /\ ~IsDuplicate(last, Pair(rec))
           /\ IsNegativeOffset(offset, tcur)
           /\ last' = <<Pair(rec)>>
           /\ errors' = Append(errors, Anomaly("negative offset", entry))
           /\ eidx' = eidx + 1
           /\ UNCHANGED <<tfields, tcur, tpc, tstatus>>
        \/ /\ ~IsDuplicate(last, Pair(rec))
           /\ ~IsNegativeOffset(offset, tcur)
           /\ last' = <<Pair(rec)>>
           /\ IF nbits < 0
              THEN tstatus' = "fatal" /\ UNCHANGED <<tfields, tcur, tpc>>
              ELSE /\ IF nbits > 0
                      THEN TableAddField(Field("padding", nbits, entry))
                      ELSE UNCHANGED <<tfields, tcur>>
                   /\ tpc' = "value"
                   /\ UNCHANGED tstatus
           /\ UNCHANGED <<eidx, errors>>
    /\ UNCHANGED <<tparser, tfield, entries, notTable>>

\* size = entry["length"].value; if size: yield String(self, "value[]", size, ...)
NamesValue ==
    /\ tparser = "parseNames" /\ tstatus = "running" /\ tpc = "value"
    /\ LET entry == entries[eidx]
           size == file.names.recs[entry].length IN
        IF size # 0
        THEN TableAddField(Field("value", size * 8, entry))
        ELSE UNCHANGED <<tfields, tcur>>
    /\ eidx' = eidx + 1
    /\ tpc' = "walk"
    /\ UNCHANGED <<tparser, tfield, tstatus, entries, last, errors, notTable>>

\* the loop is over: the generator is exhausted
NamesEnd ==
    /\ tparser = "parseNames" /\ tstatus = "running" /\ tpc = "walk"
    /\ eidx > Len(entries)
    /\ tstatus' = "done"
    /\ UNCHANGED <<tparser, tfield, tfields, tcur, tpc, entries, eidx, last, errors,
                   notTable>>

(***************************************************************************)
(* Input files of the sub-parsers: directories of every tag with the       *)
(* default contents, one font header table with every header content, one *)
(* name table with every name content.                                     *)
(***************************************************************************)
MaxOpenTables == 2
MaxNames == 3

TableTags == {"head", "name", "glyf"}
TableOffsets == {44, 100}
TableSizes == {0, 54}
TableFileSizes == {100, 154}

HeadContents ==
    {[magic |-> m, unit_per_em |-> 1000] : m \in {<<95, 15, 60, 244>>, <<245, 60, 15, 95>>}}
    \cup {[magic |-> MAGIC, unit_per_em |-> u] : u \in {0, 15, 16, 1000, 16384, 16385, 65535}}

NameOffsets == {0, 2}
NameLengths == {0, 2, 3}
NameRecords == [offset : NameOffsets, length : NameLengths]

\* the string block starts before, at or after the end of the index
NameContents ==
    {[format |-> 1, count |-> 0, offset |-> 6, recs |-> <<>>]}
    \cup {[format |-> 0, count |-> Len(rs), offset |-> 6 + 12 * Len(rs) + d, recs |-> rs] :
            rs \in SeqsUpTo(NameRecords, MaxNames), d \in {-2, 0, 2}}

TableFiles ==
    {[maj_ver |-> 1, min_ver |-> 0, nb_table |-> Len(d), dir |-> d, size |-> sz,
      head |-> DefaultHead, names |-> DefaultNames] :
        d \in SeqsUpTo(TableHeaderRecord(TableTags, TableOffsets, TableSizes), MaxOpenTables),
        sz \in TableFileSizes}
    \cup
    {[maj_ver |-> 1, min_ver |-> 0, nb_table |-> 1,
      dir |-> <<[tag |-> "head", offset |-> 28, size |-> sz]>>, size |-> 100,
      head |-> h, names |-> DefaultNames] : sz \in {54, 60}, h \in HeadContents}
    \cup
    {[maj_ver |-> 1, min_ver |-> 0, nb_table |-> 1,
      dir |-> <<[tag |-> "name", offset |-> 28, size |-> 60]>>, size |-> 100,
      head |-> DefaultHead, names |-> n] : n \in NameContents}

InitTable == InitRoot(TableFiles) /\ InitIdle /\ InitNoFragment

NextTable ==
    \/ YieldRootHeader
    \/ YieldTableHeader
    \/ SortDirectory
    \/ SeekTable
    \/ EmitTable
    \/ FinalSeek
    \/ \E i \in 1..(6 + 2 * MaxOpenTables + 1) : OpenTable(i)
    \/ YieldContent
    \/ parseFontHeader
    \/ NamesHeader
    \/ NamesIndex
    \/ NamesSort
    \/ NamesWalk
    \/ NamesValue
    \/ NamesEnd

SpecTable == InitTable /\ [][NextTable]_vars

(***************************************************************************)
(* FragmentGroup and CustomFragment.  A fragment is a field set of size    *)
(* bits at byte address addr of the outer stream; group is the index of    *)
(* its FragmentGroup, fields the fields its createFields has yielded.      *)
(***************************************************************************)
MaxFragments == 3

FragmentAddresses == {0, 2, 4, 6}
FragmentSizes == {12, 16}
FragmentParsers == {"ParserA", "ParserB"}

\* the fragments that are constructed: whole bytes anywhere, and one size that
\* is not a whole number of bytes at the start of the stream
FragmentShapes ==
    {s \in [addr : FragmentAddresses, size : FragmentSizes] : s.size % 8 = 0 \/ s.addr = 0}

\* the keyword arguments a caller passes to _createInputStream
FragmentArgs == {<<>>, <<"offset">>}
OuterStreams ==
    {<<"A", "B", "C", "D", "E", "F", "G", "H">>, <<"E", "F", "C", "D", "A", "B", "G", "H">>}

IsPrefix(s1, s2) == Len(s1) <= Len(s2) /\ SubSeq(s2, 1, Len(s1)) = s1

RECURSIVE Concat(_)
Concat(ss) == IF ss = <<>> THEN <<>> ELSE ss[1] \o Concat(Tail(ss))

\* FragmentGroup.__init__
FragmentGroup(parser) == [items |-> <<>>, parser |-> parser, args |-> <<>>]

\* an add that puts the item in front
addFirst(group, item) == [group EXCEPT !.items = <<item>> \o @]

\* FragmentGroup.add
add(group, item) == [group EXCEPT !.items = Append(@, item)]

\* CustomFragment.createFields: yield RawBytes(self, "rawdata", self.field_size // 8)
RawDataField(frag) == Field("rawdata", (frag.size \div 8) * 8, 0)

\* item["rawdata"].value: the bytes of the field, read from the outer stream
RawDataValue(frag) ==
    SubSeq(outer, frag.addr + 1, frag.addr + RawDataField(frag).bits \div 8)

\* a createInputStream that reads the fragments in the order of their addresses
createInputStreamByAddress(group) ==
    LET key == [i \in 1..Len(frags) |-> frags[i].addr]
        items == SortByKey(group.items, key) IN
    [data |-> Concat([k \in 1..Len(items) |-> RawDataValue(frags[items[k]])]),
     tags |-> [class |-> group.parser, args |-> group.args]]

\* a createInputStream that keeps the stream it built for the group and
\* returns it again
createInputStreamCached(group) ==
    IF stream # <<>> /\ IsPrefix(groups[stream[1].group].items, group.items)
    THEN stream[1].value
    ELSE [data |-> Concat([k \in 1..Len(group.items) |-> RawDataValue(frags[group.items[k]])]),
          tags |-> [class |-> group.parser, args |-> group.args]]

\* FragmentGroup.createInputStream
createInputStream(group) ==
    [data |-> Concat([k \in 1..Len(group.items) |-> RawDataValue(frags[group.items[k]])]),
     tags |-> [class |-> group.parser, args |-> group.args]]

Range(s) == {s[i] : i \in 1..Len(s)}

\* two fields of one tree do not overlap
Free(addr, size) ==
    /\ addr + (size + 7) \div 8 <= Len(outer)
    /\ \A i \in 1..Len(frags) :
          \/ frags[i].addr + (frags[i].size + 7) \div 8 <= addr
          \/ addr + (size + 7) \div 8 <= frags[i].addr

\* CustomFragment.__init__: group = None (g = 0) makes a new FragmentGroup(parser)
NewFragment(addr, size, parser, g) ==
    /\ Len(frags) < MaxFragments
    /\ g \in 0..Len(groups)
    /\ Free(addr, size)
    /\ LET gid == IF g = 0 THEN Len(groups) + 1 ELSE g
           all == IF g = 0 THEN Append(groups, FragmentGroup(parser)) ELSE groups IN
        /\ frags' = Append(frags, [addr |-> addr, size |-> size, group |-> gid])
        /\ groups' = [all EXCEPT ![gid] = add(all[gid], Len(frags) + 1)]
    /\ UNCHANGED <<outer, stream, notFrag>>

\* history: the number of fragments there were when the last stream was
\* built, if it was built for group g; 0 otherwise
PreviousCall(g) == IF stream # <<>> /\ stream[1].group = g THEN stream[1].at ELSE 0

\* what a call leaves in 'stream': the stream returned, with the group it was
\* built for, the fragment that was asked (0: the group itself) and the
\* number of fragments at the call
Returned(g, f, value) ==
    <<[group |-> g, asked |-> f, at |-> Len(frags), before |-> PreviousCall(g), value |-> value]>>

\* FragmentGroup.createInputStream, called on the group
GroupCreateInputStream(g) ==
    /\ g \in 1..Len(groups)
    /\ stream' = Returned(g, 0, createInputStream(groups[g]))
    /\ UNCHANGED <<outer, frags, groups, notFrag>>

\* a _createInputStream that builds the stream of the fragment's own bytes
FragmentCreateInputStreamOwnRange(f, args) ==
    /\ f \in 1..Len(frags)
    /\ stream' = Returned(frags[f].group, f,
                          createInputStream([groups[frags[f].group] EXCEPT !.items = <<f>>]))
    /\ UNCHANGED <<outer, frags, groups, notFrag>>

\* CustomFragment._createInputStream(**args): return self.group.createInputStream()
FragmentCreateInputStream(f, args) ==
    /\ f \in 1..Len(frags)
    /\ stream' = Returned(frags[f].group, f, createInputStream(groups[frags[f].group]))
    /\ UNCHANGED <<outer, frags, groups, notFrag>>

InitFragment ==
    /\ outer \in OuterStreams
    /\ frags = <<>>
    /\ groups = <<>>
    /\ stream = <<>>
    /\ file \in {[maj_ver |-> 1, min_ver |-> 0, nb_table |-> 0, dir |-> <<>>, size |-> 12,
                   head |-> DefaultHead, names |-> DefaultNames]}
    /\ pc = "header"
    /\ fields = <<>>
    /\ current_size = 0
    /\ tables = <<>>
    /\ idx = 1
    /\ status = "running"
    /\ seeks = <<>>
    /\ InitIdle

NextFragment ==
    \/ \E s \in FragmentShapes, parser \in FragmentParsers, g \in 0..MaxFragments :
          NewFragment(s.addr, s.size, parser, g)
    \/ \E g \in 1..MaxFragments : GroupCreateInputStream(g)
    \/ \E f \in 1..MaxFragments, args \in FragmentArgs : FragmentCreateInputStream(f, args)

SpecFragment == InitFragment /\ [][NextFragment]_vars

(***************************************************************************)
(* Properties                                                              *)
(***************************************************************************)
\* the bytes of the first n fragments constructed that belong to group g, in
\* the order of their construction
RECURSIVE RegisteredBytes(_, _)
RegisteredBytes(g, n) ==
    IF n = 0 THEN <<>>
    ELSE RegisteredBytes(g, n - 1) \o
         (IF frags[n].group = g
          THEN SubSeq(outer, frags[n].addr + 1, frags[n].addr + frags[n].size \div 8)
          ELSE <<>>)

\* C1: the stream FragmentGroup.createInputStream returns holds exactly the
\* 'rawdata' bytes of the fragments constructed with that group, one after
\* the other in the order of their construction, wherever they lie in the
\* outer stream.
C1_StreamConcatenatesInRegistrationOrder ==
    stream # <<>> => stream[1].value.data = RegisteredBytes(stream[1].group, stream[1].at)

C1_Witness ==
    /\ stream # <<>>
    /\ outer = <<"E", "F", "C", "D", "A", "B", "G", "H">>
    /\ Len(frags) = 3
    /\ \A i \in 1..3 : frags[i].group = stream[1].group
    /\ <<frags[1].addr, frags[2].addr, frags[3].addr>> = <<4, 2, 0>>
    /\ stream[1].value.data = <<"A", "B", "C", "D", "E", "F">>

Offsets(f) == [i \in 1..Len(f.dir) |-> f.dir[i].offset]

\* record a is processed before record b: lower offset, or equal offset and
\* earlier in the directory
Before(f, a, b) ==
    \/ f.dir[a].offset < f.dir[b].offset
    \/ f.dir[a].offset = f.dir[b].offset /\ a < b

CountNamed(fs, name) == Cardinality({i \in 1..Len(fs) : fs[i].name = name})

\* C2 (as amended): the records are processed (seek, then table emission) in
\* ascending order of declared offset, records of equal offset in directory
\* order, none passed over, up to the first record whose offset lies behind
\* the cursor: that seek is fatal and the records after it are not processed.
\* A production that completes has processed every record.
C2_AscendingUntilSeekFails ==
    /\ \A i \in 1..Len(seeks) : \A r \in 1..file.nb_table :
          Before(file, r, seeks[i]) <=> r \in Range(SubSeq(seeks, 1, i - 1))
    /\ status = "done" => Len(seeks) = file.nb_table
    /\ (status = "fatal" /\ Len(seeks) < file.nb_table) =>
          /\ seeks # <<>>
          /\ file.dir[seeks[Len(seeks)]].offset * 8 < current_size
    /\ (Offsets(file) = <<200, 50, 120>> /\ seeks # <<>>) =>
          (seeks = <<2>> /\ status = "fatal" /\ CountNamed(fields, "table") = 0)
    /\ (Offsets(file) = <<200, 60, 120>> /\ Len(seeks) = 3) => seeks = <<2, 3, 1>>

C2_Witness ==
    /\ Offsets(file) = <<200, 60, 120>>
    /\ status = "done"
    /\ seeks = <<2, 3, 1>>

\* C2 (as stated): directory offsets [200, 50, 120] are processed as 50, 120, 200
C2_Original ==
    (Offsets(file) = <<200, 50, 120>> /\ status # "running") => seeks = <<2, 3, 1>>

\* C4: validate() returns success exactly when maj_ver = 1, min_ver = 0 and
\* 3 <= nb_table <= 30; otherwise it returns a diagnostic naming the first
\* violated check in the order major version, minor version, table count, and
\* the production is not made to fail.
C4_ValidateResult ==
    [][result' # result =>
        LET r == result'[1]
            versionOk == file.maj_ver = 1 /\ file.min_ver = 0 IN
        /\ r.ok <=> (versionOk /\ file.nb_table >= 3 /\ file.nb_table <= 30)
        /\ file.maj_ver # 1 => (r.msg = "Invalid major version" /\ r.arg = file.maj_ver)
        /\ (file.maj_ver = 1 /\ file.min_ver # 0) =>
              (r.msg = "Invalid minor version" /\ r.arg = file.min_ver)
        /\ (versionOk /\ ~r.ok) =>
              (r.msg = "Invalid number of table" /\ r.arg = file.nb_table)
        /\ (versionOk /\ file.nb_table \in {2, 31}) => ~r.ok
        /\ (versionOk /\ file.nb_table = 5) => r.ok
        /\ status' = status]_vars

C4_Witness ==
    /\ result # <<>>
    /\ file.maj_ver = 1 /\ file.min_ver = 0 /\ file.nb_table = 30
    /\ result[1].ok

\* C5 (as amended): during directory reading in the root production a table
\* count outside [3, 30] is not fatal: the production never fails before the
\* directory is read, and once it is read exactly nb_table directory records
\* have been emitted, whatever the count.
C5_CountNotChecked ==
    /\ pc \in {"header", "directory"} => status = "running"
    /\ pc \in {"seek", "table", "end"} => CountNamed(fields, "table_hdr") = file.nb_table

C5_Witness ==
    /\ file.nb_table = 31
    /\ pc = "seek"
    /\ CountNamed(fields, "table_hdr") = 31

\* C5 (as stated): no directory record and no table is emitted for a count
\* outside [3, 30]
C5_Original ==
    ~(file.nb_table >= MIN_NB_TABLE /\ file.nb_table <= MAX_NB_TABLE) =>
        (CountNamed(fields, "table_hdr") = 0 /\ CountNamed(fields, "table") = 0)


\* fields of fs built from record (or index entry) r
FieldsOf(fs, r) == {i \in 1..Len(fs) : fs[i].rec = r}

C6_InvalidMagicIsFatal ==
    [][(tparser = "parseFontHeader" /\ file.head.magic # <<95, 15, 60, 245>>) =>
        /\ Len(tfields') <= 6
        /\ \A i \in 1..Len(tfields') : tfields'[i].name = FontHeaderFields[i].name
        /\ (Len(tfields) = 6 /\ tableVars' # tableVars) =>
              (tstatus' = "fatal" /\ tfields' = tfields)
        /\ tstatus = "fatal" => (tstatus' = "fatal" /\ tfields' = tfields)
        /\ tstatus' = "fatal" => (Len(tfields') = 6 /\ tfields'[6].name = "magic")
        /\ IsPrefix(fields, fields')]_vars

C6_Witness ==
    /\ tparser = "parseFontHeader"
    /\ file.head.magic = <<95, 15, 60, 244>>
    /\ tstatus = "fatal"
    /\ Len(tfields) = 6
    /\ Len(fields) = 9
    /\ status = "done"

\* C7: in the font header with a valid magic, production goes on past
\* 'unit_per_em' exactly when 16 <= unit_per_em <= 16384: outside the range
\* the parse is fatal with 'unit_per_em' the last field, inside it the parse
\* never fails.
C7_UnitPerEmRange ==
    (tparser = "parseFontHeader" /\ file.head.magic = <<95, 15, 60, 245>>) =>
        LET v == file.head.unit_per_em
            inRange == v >= 16 /\ v <= 16384
            produced == {tfields[i].name : i \in 1..Len(tfields)} IN
        /\ "created_high" \in produced => inRange
        /\ ~inRange => Len(tfields) <= 22
        /\ tstatus = "fatal" => (~inRange /\ tfields[Len(tfields)].name = "unit_per_em")
        /\ inRange => tstatus # "fatal"
        /\ v \in {15, 16385} => "created_high" \notin produced
        /\ (tstatus = "done" /\ v \in {16, 16384}) => "glyph_format" \in produced

C7_Witness ==
    /\ tparser = "parseFontHeader"
    /\ file.head.magic = <<95, 15, 60, 245>>
    /\ file.head.unit_per_em = 16
    /\ tstatus = "done"

\* anomalies reported for the index entries es, string fields emitted for them
AnomaliesOf(es) == {k \in 1..Len(errors) : errors[k].entry \in es}
StringsOf(es) == {i \in 1..Len(tfields) : tfields[i].name = "value" /\ tfields[i].rec \in es}

\* the index entries the walk is done with
Walked == IF tpc = "walk" /\ tparser = "parseNames" THEN eidx - 1 ELSE 0

SamePair(a, b) == Pair(file.names.recs[a]) = Pair(file.names.recs[b])

\* C8 (as amended): of two index records that share one (offset, length) with
\* length > 0, the first of which (in the sorted order) is processed, only
\* the first is retained: exactly one anomaly is reported, for the second
\* (as a duplicate when it follows the first directly), exactly one string
\* field is emitted, for the first, and the walk goes on without failing.
C8_DuplicateSkippedOnce ==
    tparser = "parseNames" =>
        /\ tpc \in {"walk", "value"} => tstatus # "fatal"
        /\ tstatus = "done" => eidx = file.names.count + 1
        /\ \A i \in 1..Walked : \A j \in (i + 1)..Walked :
              LET a == entries[i]
                  b == entries[j] IN
              (/\ SamePair(a, b)
               /\ file.names.recs[a].length > 0
               /\ AnomaliesOf({a}) = {}) =>
                  /\ Cardinality(AnomaliesOf({a, b})) = 1
                  /\ Cardinality(StringsOf({a, b})) = 1
                  /\ StringsOf({b}) = {}
                  /\ j = i + 1 => \A k \in AnomaliesOf({b}) : errors[k].kind = "duplicate"

C8_Witness ==
    /\ tparser = "parseNames" /\ tstatus = "done"
    /\ file.names.count = 3
    /\ SamePair(entries[1], entries[2])
    /\ file.names.recs[entries[1]].length > 0
    /\ AnomaliesOf({entries[1]}) = {}
    /\ Cardinality(AnomaliesOf({entries[2]})) = 1
    /\ StringsOf({entries[3]}) # {}

\* C8 (as stated): two index records that share one (offset, length) give
\* exactly one anomaly and exactly one string field
C8_Original ==
    tparser = "parseNames" =>
        \A i \in 1..Walked : \A j \in (i + 1)..Walked :
            SamePair(entries[i], entries[j]) =>
                /\ Cardinality(AnomaliesOf({entries[i], entries[j]})) = 1
                /\ Cardinality(StringsOf({entries[i], entries[j]})) = 1

\* C9: in the name-table walk, a record whose absolute offset (string-block
\* offset + record offset) is less than the cursor in bytes is skipped: one
\* anomaly is reported for it, no field is emitted, the cursor stays, the
\* parse does not fail and the walk moves on to the next record.
C9_BackwardOffsetSkipped ==
    [][(/\ tparser = "parseNames" /\ tpc = "walk" /\ tstatus = "running"
        /\ eidx <= Len(entries)
        /\ file.names.offset + file.names.recs[entries[eidx]].offset < tcur \div 8
        /\ tableVars' # tableVars) =>
            /\ errors' # errors
            /\ SubSeq(errors', 1, Len(errors)) = errors
            /\ Len(errors') = Len(errors) + 1
            /\ errors'[Len(errors')].entry = entries[eidx]
            /\ tfields' = tfields
            /\ tcur' = tcur
            /\ tstatus' = "running"
            /\ tpc' = "walk"
            /\ entries' = entries
            /\ eidx' = eidx + 1]_vars

C9_Witness ==
    /\ tparser = "parseNames" /\ tstatus = "done"
    /\ \E k \in 1..Len(errors) :
          /\ errors[k].kind = "negative offset"
          /\ \E i \in 1..Len(tfields) :
                /\ tfields[i].name = "value"
                /\ \E p, q \in 1..Len(entries) :
                      p < q /\ entries[p] = errors[k].entry /\ entries[q] = tfields[i].rec

\* C10: in the root production a directory record of declared size 0 gives no
\* table field: the only field built from it is the padding of its seek, at
\* most one, which ends at the record's offset; after the seek, and after
\* the record is done with, the cursor is the record's offset.
C10_ZeroSizeEmitsNoTable ==
    [][\A r \in 1..file.nb_table : file.dir[r].size = 0 =>
        /\ \A i \in FieldsOf(fields', r) :
              /\ fields'[i].name \in {"table_hdr", "padding"}
              /\ fields'[i].name = "padding" =>
                    SumBits(SubSeq(fields', 1, i)) = 8 * file.dir[r].offset
        /\ Cardinality({i \in FieldsOf(fields', r) : fields'[i].name = "padding"}) <= 1
        /\ (pc \in {"seek", "table"} /\ idx <= Len(tables) /\ tables[idx] = r
            /\ pc' # pc) =>
              /\ current_size' = 8 * file.dir[r].offset
              /\ pc = "table" => (fields' = fields /\ current_size' = current_size)]_vars

C10_Witness ==
    /\ status = "done"
    /\ \E i \in 1..Len(fields) :
          /\ fields[i].name = "padding"
          /\ fields[i].rec # 0
          /\ file.dir[fields[i].rec].size = 0
          /\ i < Len(fields)
          /\ fields[i + 1].name = "table"

\* the bit address the root's next seek is made to: the offset of the record
\* at hand, the size of the stream once the records are done with
RootSeekTarget ==
    IF idx <= Len(tables) THEN 8 * file.dir[tables[idx]].offset ELSE 8 * file.size

\* the bit address the name walk seeks to for the index record at hand
NamesSeekTarget == 8 * (file.names.offset + file.names.recs[entries[eidx]].offset)

IsPadding(fld, bits) == fld.name = "padding" /\ fld.bits = bits

\* C11: a seek to an address behind the cursor fails and leaves cursor and
\* fields as they are, so that no cursor ever decreases; a seek to the cursor
\* emits no field; a seek ahead emits exactly one padding field, as long as
\* the gap, and the cursor is then the address.  For the seeks of the root
\* (before each table, and the last one) and of the name-table walk.
C11_SeekNeverRewinds ==
    [][/\ current_size' >= current_size
       /\ tcur' >= tcur
       /\ (pc = "seek" /\ status = "running" /\ rootVars' # rootVars) =>
             /\ RootSeekTarget < current_size =>
                   (status' = "fatal" /\ fields' = fields /\ current_size' = current_size)
             /\ RootSeekTarget = current_size =>
                   (status' # "fatal" /\ fields' = fields /\ current_size' = current_size)
             /\ RootSeekTarget > current_size =>
                   /\ status' # "fatal"
                   /\ Len(fields') = Len(fields) + 1
                   /\ SubSeq(fields', 1, Len(fields)) = fields
                   /\ IsPadding(fields'[Len(fields')], RootSeekTarget - current_size)
                   /\ current_size' = RootSeekTarget
       /\ (tparser = "parseNames" /\ tpc = "walk" /\ tpc' = "value") =>
             /\ NamesSeekTarget = tcur => (tfields' = tfields /\ tcur' = tcur)
             /\ NamesSeekTarget > tcur =>
                   /\ Len(tfields') = Len(tfields) + 1
                   /\ SubSeq(tfields', 1, Len(tfields)) = tfields
                   /\ IsPadding(tfields'[Len(tfields')], NamesSeekTarget - tcur)
                   /\ tcur' = NamesSeekTarget
       /\ (tparser = "parseNames" /\ tpc = "walk" /\ eidx <= Len(entries)
           /\ NamesSeekTarget < tcur) => (tcur' = tcur /\ tfields' = tfields)]_vars

C11_Witness ==
    /\ status = "fatal" /\ pc = "seek" /\ idx = 2 /\ Len(tables) = 2
    /\ 8 * file.dir[tables[idx]].offset < current_size
    /\ \E i \in 1..Len(fields) : fields[i].name = "padding"
    /\ seeks = <<1, 2>>

\* the 'rawdata' bytes of fragment n
FragmentBytes(n) == SubSeq(outer, frags[n].addr + 1, frags[n].addr + frags[n].size \div 8)

\* the bytes of the fragments of group g constructed after the first n
AddedBytes(g, n) ==
    Concat([k \in 1..(Len(frags) - n) |->
              IF frags[n + k].group = g THEN FragmentBytes(n + k) ELSE <<>>])

\* C12: createInputStream is recomputed at every call: the stream a call
\* returns is built from the fragments registered at the time of that call.
\* After an earlier call for the same group it is the earlier stream followed
\* by the bytes of the fragments registered to the group since, and equal to
\* the earlier stream when no fragment was registered in between.
C12_StreamRecomputedPerCall ==
    [][stream' # stream =>
        LET new == stream'[1]
            g == new.group IN
        /\ new.at = Len(frags)
        /\ new.value.data = RegisteredBytes(g, Len(frags))
        /\ (stream # <<>> /\ stream[1].group = g) =>
              /\ new.before = stream[1].at
              /\ new.value.data = stream[1].value.data \o AddedBytes(g, stream[1].at)
              /\ stream[1].at = Len(frags) => new.value = stream[1].value]_vars

C12_Witness ==
    /\ stream # <<>>
    /\ stream[1].before >= 1
    /\ stream[1].before < stream[1].at
    /\ frags[stream[1].at].group = stream[1].group
    /\ Len(stream[1].value.data) > Len(RegisteredBytes(stream[1].group, stream[1].before))
    /\ stream[1].value.data = RegisteredBytes(stream[1].group, stream[1].at)

\* C13: a CustomFragment asked for its stream returns the stream of its
\* group, not its own bytes: the bytes of every fragment of the group in the
\* order of their construction, tagged with the parser and the arguments of
\* the group, whatever arguments the call passes; asking another fragment of
\* the group, or the group itself, with no construction in between returns
\* an equal stream.
C13_FragmentYieldsGroupStream ==
    [][(stream' # stream /\ stream'[1].asked # 0) =>
        LET new == stream'[1]
            g == frags[new.asked].group IN
        /\ new.group = g
        /\ new.value.data = RegisteredBytes(g, Len(frags))
        /\ new.value.tags = [class |-> groups[g].parser, args |-> groups[g].args]
        /\ (stream # <<>> /\ stream[1].group = g /\ stream[1].at = Len(frags)) =>
              new.value = stream[1].value]_vars

C13_Witness ==
    /\ stream # <<>>
    /\ Len(frags) = 3
    /\ \A i \in 1..3 : frags[i].group = stream[1].group
    /\ stream[1].asked = 2
    /\ stream[1].at = 3
    /\ FragmentBytes(2) = <<"C", "D">>
    /\ stream[1].value.data = <<"A", "B", "C", "D", "E", "F">>

\* fragment f occurs exactly once in the list of group g
OccursOnce(f, g) == Cardinality({k \in 1..Len(groups[g].items) : groups[g].items[k] = f}) = 1

\* every fragment is once in the list of its own group and in no other list,
\* and every list is in construction order
Membership ==
    /\ \A f \in 1..Len(frags) :
          /\ frags[f].group \in 1..Len(groups)
          /\ OccursOnce(f, frags[f].group)
          /\ \A g \in 1..Len(groups) : g # frags[f].group => f \notin Range(groups[g].items)
    /\ \A g \in 1..Len(groups) :
          /\ Range(groups[g].items) \subseteq 1..Len(frags)
          /\ \A k \in 1..(Len(groups[g].items) - 1) : groups[g].items[k] < groups[g].items[k + 1]

\* C15: a CustomFragment constructed without a group makes a new group with
\* its own parser and itself as only member, apart from every fragment
\* constructed before; one constructed with a group is put at the end of
\* that group's list, the group keeps its parser and the parser argument of
\* the fragment has no effect.  Every fragment is exactly once in the list of
\* its own group, in no other, and the lists are in construction order.
C15_GroupMembership ==
    [][/\ groups' # groups => frags' # frags
       /\ frags' # frags => Membership'
       /\ frags' # frags =>
             LET f == Len(frags) + 1
                 g == IF frags'[f].group <= Len(groups) THEN frags'[f].group ELSE 0 IN
             /\ Len(frags') = f
             /\ SubSeq(frags', 1, Len(frags)) = frags
             /\ \A parser \in FragmentParsers :
                   NewFragment(frags'[f].addr, frags'[f].size, parser, g) =>
                      /\ g = 0 =>
                            /\ groups' = Append(groups, [items |-> <<f>>, parser |-> parser,
                                                         args |-> <<>>])
                            /\ frags'[f].group = Len(groups) + 1
                            /\ \A e \in 1..Len(frags) : frags'[e].group # frags'[f].group
                      /\ g # 0 =>
                            /\ Len(groups') = Len(groups)
                            /\ groups'[g].parser = groups[g].parser
                            /\ groups'[g].items = Append(groups[g].items, f)
                            /\ \A h \in 1..Len(groups) : h # g => groups'[h] = groups[h]]_vars

C15_Witness ==
    /\ Len(frags) = 3
    /\ Len(groups) = 2
    /\ groups[1].items = <<1, 3>>
    /\ groups[2].items = <<2>>
    /\ groups[1].parser = "ParserA"
    /\ groups[2].parser = "ParserB"
    /\ Membership

\* the names of the first n fields of fs
Names(fs, n) == [i \in 1..n |-> fs[i].name]

\* C14: a Table is emitted for a record of size > 0 only and is bound to
\* size*8 bits; it runs the font header parser exactly for the tag 'head' and
\* the names parser exactly for the tag 'name', and for any other tag its
\* production is exactly one raw field 'content' of size bytes.
C14_TagSelectsParser ==
    tparser # "closed" =>
        LET r == file.dir[fields[tfield].rec] IN
        /\ r.size > 0
        /\ TableSize = r.size * 8
        /\ tparser = "parseFontHeader" <=> r.tag = "head"
        /\ tparser = "parseNames" <=> r.tag = "name"
        /\ tparser = "None" <=> r.tag \notin {"head", "name"}
        /\ fields[tfield].name =
              (IF r.tag = "head" THEN "header" ELSE IF r.tag = "name" THEN "names" ELSE "table")
        /\ r.tag = "head" =>
              /\ Len(tfields) <= Len(FontHeaderFields)
              /\ \A i \in 1..Len(tfields) : tfields[i].name = FontHeaderFields[i].name
        /\ (r.tag = "name" /\ Len(tfields) >= 3) =>
              Names(tfields, 3) = <<"format", "count", "offset">>
        /\ r.tag \notin {"head", "name"} =>
              \/ tstatus = "running" /\ tfields = <<>>
              \/ /\ tstatus = "done"
                 /\ tfields = <<[name |-> "content", bits |-> 8 * r.size, rec |-> 0]>>

C14_Witness ==
    /\ tparser = "None"
    /\ tstatus = "done"
    /\ file.dir[fields[tfield].rec].tag = "glyf"
    /\ file.dir[fields[tfield].rec].size = 54
    /\ tfields[1].bits = 54 * 8
    /\ \E i \in 1..Len(fields) : fields[i].name = "header"

\* C16: a root production that completes ends with the cursor on the declared
\* size: the step that completes it is the seek made after the last record,
\* which emits exactly one padding field of (declared size - cursor) bits when
\* the cursor is short of the size and no field when it is on it; nothing is
\* emitted afterwards.
C16_FinalPadding ==
    [][/\ status' = "done" =>
             (current_size' = 8 * file.size /\ SumBits(fields') = 8 * file.size)
       /\ (status = "running" /\ status' = "done") =>
             /\ pc = "seek" /\ idx > Len(tables)
             /\ current_size <= 8 * file.size
             /\ current_size < 8 * file.size =>
                   fields' = Append(fields, [name |-> "padding",
                                             bits |-> 8 * file.size - current_size,
                                             rec |-> 0])
             /\ current_size = 8 * file.size => fields' = fields
       /\ status = "done" => (fields' = fields /\ status' = "done")]_vars

C16_Witness ==
    /\ status = "done"
    /\ fields[Len(fields)].name = "table"
    /\ current_size = 8 * file.size

\* the last root field validate() looks up before it returns
LastLookup ==
    IF file.maj_ver # 1 THEN "maj_ver" ELSE IF file.min_ver # 0 THEN "min_ver" ELSE "nb_table"

Position(name) == CHOOSE i \in 1..Len(RootHeaderNames) : RootHeaderNames[i] = name

\* C17: validate() makes the root produce its fields up to the last one it
\* looks up (maj_ver, min_ver or nb_table) and no further: the fields there
\* were stay, the new ones are header fields, and no table_hdr and no table
\* is produced by the call, whatever the table count.
C17_ValidateForcesHeaderOnly ==
    [][result' # result =>
        /\ IsPrefix(fields, fields')
        /\ Len(fields') = (IF Len(fields) >= Position(LastLookup) THEN Len(fields)
                           ELSE Position(LastLookup))
        /\ \A i \in (Len(fields) + 1)..Len(fields') : fields'[i].name = RootHeaderNames[i]
        /\ CountNamed(fields', "table_hdr") = CountNamed(fields, "table_hdr")
        /\ CountNamed(fields', "table") = CountNamed(fields, "table")
        /\ current_size' = SumBits(fields')
        /\ <<tables', idx', seeks', status'>> = <<tables, idx, seeks, status>>]_vars

C17_Witness ==
    /\ result # <<>>
    /\ file.maj_ver = 1 /\ file.min_ver = 0 /\ file.nb_table = 31
    /\ Names(fields, Len(fields)) = <<"maj_ver", "min_ver", "nb_table">>

\* the root fields that are tables
TableFields == {i \in 1..Len(fields) : fields[i].name \in TableNames}

\* the bit address of root field i
Address(i) == SumBits(SubSeq(fields, 1, i - 1))

\* C18: every table field of the root starts at 8 * (offset of the record it
\* was built from) and has 8 * (size of that record) bits, a record gives at
\* most one table, exactly one (when its size is not 0) once the production
\* completes, and no two tables overlap.
C18_TablesAtDeclaredOffsets ==
    /\ \A i \in TableFields :
          /\ fields[i].rec \in 1..file.nb_table
          /\ Address(i) = 8 * file.dir[fields[i].rec].offset
          /\ fields[i].bits = 8 * file.dir[fields[i].rec].size
          /\ fields[i].bits > 0
    /\ \A i, j \in TableFields :
          i < j => (fields[i].rec # fields[j].rec /\ Address(i) + fields[i].bits <= Address(j))
    /\ status = "done" =>
          \A r \in 1..file.nb_table :
             file.dir[r].size > 0 => \E i \in TableFields : fields[i].rec = r

C18_Witness ==
    /\ status = "done"
    /\ Cardinality(TableFields) = 2
    /\ \E i \in TableFields : fields[i - 1].name = "padding" /\ fields[i - 1].rec = fields[i].rec
    /\ \E i \in TableFields : i > 1 /\ (i - 1) \in TableFields

\* the fields of the Table built for index entry e, the index record apart
WalkFieldsOf(e) == {i \in 1..Len(tfields) : tfields[i].rec = e /\ tfields[i].name # "header"}

TableAddress(i) == SumBits(SubSeq(tfields, 1, i - 1))

\* C19: once the header of a name table is accepted (format 0) the parse
\* never fails: the seek of the walk is only made to an address on or ahead
\* of the cursor.  Every index record the walk is done with is either skipped
\* with exactly one anomaly and no field, or processed with no anomaly: its
\* fields end at or start at its absolute offset and a string is among them
\* exactly when its length is not 0.  At the end anomalies + processed
\* records = count.
C19_NamesWalkNeverAborts ==
    (tparser = "parseNames" /\ file.names.format = 0) =>
        /\ tstatus # "fatal"
        /\ tcur % 8 = 0
        /\ (/\ tpc = "walk" /\ eidx <= Len(entries)
            /\ ~(last # <<>> /\ last[1] = Pair(file.names.recs[entries[eidx]]))
            /\ ~(NamesSeekTarget \div 8 < tcur \div 8)) => NamesSeekTarget >= tcur
        /\ \A k \in 1..Walked :
              LET e == entries[k]
                  rec == file.names.recs[e]
                  target == 8 * (file.names.offset + rec.offset) IN
              \/ /\ Cardinality(AnomaliesOf({e})) = 1
                 /\ WalkFieldsOf(e) = {}
              \/ /\ AnomaliesOf({e}) = {}
                 /\ StringsOf({e}) # {} <=> rec.length > 0
                 /\ Cardinality(StringsOf({e})) <= 1
                 /\ \A i \in WalkFieldsOf(e) :
                       /\ tfields[i].name = "value" =>
                             (TableAddress(i) = target /\ tfields[i].bits = 8 * rec.length)
                       /\ tfields[i].name = "padding" =>
                             TableAddress(i) + tfields[i].bits = target
        /\ tstatus = "done" =>
              /\ Walked = file.names.count
              /\ Len(errors) + Cardinality({e \in 1..file.names.count : AnomaliesOf({e}) = {}})
                    = file.names.count

C19_Witness ==
    /\ tparser = "parseNames" /\ tstatus = "done"
    /\ file.names.count = 3
    /\ {errors[k].kind : k \in 1..Len(errors)} = {"duplicate", "negative offset"}
    /\ Len(errors) = 2
    /\ Cardinality(StringsOf(1..3)) = 1

====
